---- MODULE Spec2Model ----
(***************************************************************************)
(* MapTilerWebCrawler (src/web_crawler.py): the wave-based crawl loop of    *)
(* crawl(), the unit of work _crawl_url() run by the threads of a          *)
(* ThreadPoolExecutor, the robots.txt cache of _get_robots_parser() and    *)
(* _can_fetch(), and the result list.                                      *)
(*                                                                         *)
(* A URL is a pair <<origin, path>>.  The outside world (robots.txt        *)
(* documents, the page inspector's verdict, the markup of a page and the   *)
(* links in it, network failures) is chosen nondeterministically when the  *)
(* code asks for it.  A worker thread interleaves with the others at every *)
(* blocking call: the robots.txt read, check_website() and requests.get(). *)
(***************************************************************************)
EXTENDS Integers, FiniteSets, Sequences, TLC

\* ---- bounds of the model -------------------------------------------------
MaxPath == 2
MaxPagesBound == 2
MaxDepthBound == 1
MaxConcurrency == 2
MaxSeeds == 2
MaxLinks == 1
MaxCalls == 2

Origins == {"a.test", "b.test"}
Paths == 1..MaxPath
\* a.test serves every path, b.test one page
URLS == {u \in Origins \X Paths : u[1] = "a.test" \/ u[2] = 1}

\* ---- state ----------------------------------------------------------------
VARIABLES
  max_pages,       \* self.max_pages
  max_depth,       \* self.max_depth
  concurrency,     \* self.concurrency
  visited_urls,    \* self.visited_urls
  robots_cache,    \* self.robots_cache: origin -> parser (its Disallow paths)
  results,         \* self.results
  urls_to_crawl,   \* crawl(): the frontier
  current_depth,   \* crawl(): the depth of the wave
  crawl_pc,        \* crawl(): "idle", "loop" (line 104), "wave" (107-119), "done",
                   \*          "raised" (an exception left crawl())
  tasks,           \* the futures of the wave: url -> state of its _crawl_url call
  robots_doc,      \* the world: the robots.txt document an origin serves
  hist,            \* history of the run (observations only)
  page,            \* what self.driver serves for the URL check_website loads
  checked,         \* what check_website returned for it
  markup,          \* the base URL and the HTML handed to _extract_links
  extracted,       \* the link sets _extract_links returned for it, in call order
  threads,         \* _crawl_url calls that pool threads run side by side
  driver,          \* self.checker.driver: the URL whose page the one browser holds
  site             \* the world: the page each URL serves

vars == <<max_pages, max_depth, concurrency, visited_urls, robots_cache, results,
          urls_to_crawl, current_depth, crawl_pc, tasks, robots_doc, hist,
          page, checked, markup, extracted, threads, driver, site>>

config == <<max_pages, max_depth, concurrency>>
\* what a crawl never touches: the inputs and outputs of single calls of the
\* page inspector and of _extract_links
calls == <<page, checked, markup, extracted>>
\* what crawl() does not model step by step: _crawl_url calls racing on the
\* one browser
shared == <<threads, driver, site>>

\* ---- values ----------------------------------------------------------------
\* RobotFileParser after a successful read(); None when read() raised.
Parser(paths) == [ok |-> TRUE, disallow |-> paths]
NoParser == [ok |-> FALSE, disallow |-> {}]

\* What check_website(url) returns: None, the {url, error} dict, or the
\* {url, uses_maptiler: True, has_proper_attribution, ...} dict.
NoFinding ==
  [kind |-> "none", url |-> <<"", 0>>, has_proper_attribution |-> FALSE, issues |-> <<>>]
ErrorFinding(url) ==
  [kind |-> "error", url |-> url, has_proper_attribution |-> FALSE, issues |-> <<>>]
UsageFinding(url, ok) ==
  [kind |-> "usage", url |-> url, has_proper_attribution |-> ok,
   issues |-> IF ok THEN <<>> ELSE <<"Missing MapTiler attribution">>]
check_website(url) ==
  {NoFinding, ErrorFinding(url), UsageFinding(url, TRUE), UsageFinding(url, FALSE)}

\* A submitted _crawl_url(url, depth) call.
NewTask(d) ==
  [pc |-> "queued", depth |-> d, rp |-> NoParser, asked |-> FALSE, allowed |-> TRUE,
   finding |-> NoFinding, fetch |-> "none", links |-> {}]

\* dict update
Put(f, k, v) == [x \in (DOMAIN f) \cup {k} |-> IF x = k THEN v ELSE f[x]]

\* ---- pure parts of the code --------------------------------------------------
\* (variant: line 75 left out)
MarkVisitedNever(visited, url) == visited
\* line 75: self.visited_urls.add(url)
MarkVisited(visited, url) == visited \cup {url}

\* _can_fetch line 44: scheme://netloc of the URL
base_url(url) == url[1]

\* (variant: a missing parser answers "no")
can_fetch_fail_closed(rp, url) == IF rp.ok THEN url[2] \notin rp.disallow ELSE FALSE

\* _can_fetch lines 46-48: rp.can_fetch("*", url) if rp else True
can_fetch(rp, url) == IF rp.ok THEN url[2] \notin rp.disallow ELSE TRUE

\* (variant: the visited set is not consulted)
AlreadyDoneDepthOnly(url, depth) == depth > max_depth

\* _crawl_url line 68
AlreadyDone(url, depth) == depth > max_depth \/ url \in visited_urls

\* (variant: the robots answer is ignored)
SkipForRobotsNever(allowed) == FALSE

\* _crawl_url line 71
SkipForRobots(allowed) == ~allowed

\* _crawl_url lines 81: result and result.get('uses_maptiler')
IsUsage(result) == result.kind = "usage"

\* (variant: the result is appended twice)
RecordTwice(res, result) == Append(Append(res, result), result)

\* (variant: the list is rebuilt from the new result alone)
RecordLastOnly(res, result) == <<result>>

\* _crawl_url line 82: self.results.append(result)
Record(res, result) == Append(res, result)

\* (variant: the report counts the results as the pages crawled)
SaveResultsCountsResults ==
  [total_pages_crawled |-> Len(results),
   maptiler_pages_found |-> Len(results),
   results |-> results]

\* save_results lines 133-138: the report written to the file
SaveResults ==
  [total_pages_crawled |-> Cardinality(visited_urls),
   maptiler_pages_found |-> Len(results),
   results |-> results]

\* (variant: the depth test is off by one)
LoopCondDepthOffByOne ==
  /\ urls_to_crawl # {}
  /\ Cardinality(visited_urls) < max_pages
  /\ current_depth <= max_depth + 1

\* (variant: the last depth is not crawled)
LoopCondDepthStrict ==
  /\ urls_to_crawl # {}
  /\ Cardinality(visited_urls) < max_pages
  /\ current_depth < max_depth

\* crawl line 104
LoopCond ==
  /\ urls_to_crawl # {}
  /\ Cardinality(visited_urls) < max_pages
  /\ current_depth <= max_depth

\* (variant: only one URL of the frontier is submitted)
ToSubmitOne == IF urls_to_crawl = {} THEN {} ELSE {CHOOSE u \in urls_to_crawl : TRUE}
\* crawl lines 109-112: one future per URL of the frontier
ToSubmit == urls_to_crawl

\* crawl line 107: a pool thread is free to take a queued call
Running == {u \in DOMAIN tasks : tasks[u].pc \notin {"queued", "done"}}
\* (variant: the pool keeps one thread less than max_workers)
PoolOneThreadShort == Cardinality(Running) < concurrency - 1

\* (variant: every submitted call runs at once)
PoolAlwaysFree == TRUE
\* line 107: ThreadPoolExecutor(max_workers=self.concurrency)
PoolHasFreeThread == Cardinality(Running) < concurrency

\* (variant: only the result of one future is kept)
NewUrlsOfOne ==
  IF DOMAIN tasks = {} THEN {}
  ELSE tasks[CHOOSE u \in DOMAIN tasks :
               \A v \in DOMAIN tasks :
                 Cardinality(tasks[u].links) <= Cardinality(tasks[v].links)].links
\* crawl lines 115-119: the union of the results of the futures
NewUrls == UNION {tasks[u].links : u \in DOMAIN tasks}

\* (variant: visited URLs stay in the frontier)
NextFrontierKeepsVisited(new_urls) == new_urls

\* (variant: the first result ends the wait)
AnyReturned == \E u \in DOMAIN tasks : tasks[u].pc = "done"

\* crawl lines 107-119: future.result() of every future, and the end of the
\* with block, wait until every submitted call has returned
AllReturned == \A u \in DOMAIN tasks : tasks[u].pc = "done"

\* crawl line 121
NextFrontier(new_urls) == new_urls \ visited_urls

\* (variant: the depth is not advanced)
NextDepthStuck(depth) == depth

\* crawl line 122
NextDepth(depth) == depth + 1

\* (variant: response.ok is not tested)
ReturnedLinksNoOkCheck(outcome, links) == links

\* _crawl_url lines 86-94: the links the call returns; outcome is what
\* requests.get did and links are those of the markup of its response
ReturnedLinks(outcome, links) == IF outcome = "ok" THEN links ELSE {}

\* a unit of work that failed: error finding (attribution_checker.py 139-145),
\* requests.get raised (line 92) or the response was not ok (line 87)
Failed(t) == t.finding.kind = "error" \/ t.fetch \in {"raise", "not_ok"}

\* ---- initial state: after __init__ (lines 13-20) ----------------------------
\* lines 17-19, and no crawl() called yet
InitState ==
  /\ visited_urls = {}
  /\ robots_cache = <<>>
  /\ results = <<>>
  /\ urls_to_crawl = {}
  /\ current_depth = 0
  /\ crawl_pc = "idle"
  /\ tasks = <<>>
  /\ robots_doc = <<>>
  /\ hist = [dispatched |-> [u \in URLS |-> 0],
             inspected |-> [u \in URLS |-> 0],
             fetched |-> {},
             denied |-> {},
             failed |-> {},
             findings |-> <<>>,
             page_links |-> <<>>,
             visit_depth |-> <<>>,
             robots_reads |-> [o \in Origins |-> 0],
             wave_budget |-> 0,
             waves |-> 0,
             seeds |-> {},
             calls |-> 0,
             at_call |-> [visited |-> {}, cached |-> {}, results |-> <<>>, waves |-> 0]]

\* no single call of the inspector or of _extract_links is under study
NoPage == [url |-> "", fault |-> "none"]
NotCalled == [url |-> "None", result |-> [kind |-> "not_called"]]
NoMarkup == [base |-> "", anchors |-> <<>>, parser_raises |-> FALSE]
NoThreads ==
  /\ threads = <<>>
  /\ driver = "None"
  /\ site = <<>>
NoCalls ==
  /\ page = NoPage
  /\ checked = NotCalled
  /\ markup = NoMarkup
  /\ extracted = <<>>
  /\ NoThreads

\* a crawler built with bounds that let it crawl
Init ==
  /\ max_pages \in 1..MaxPagesBound
  /\ max_depth \in 0..MaxDepthBound
  /\ concurrency \in 1..MaxConcurrency
  /\ InitState
  /\ NoCalls

\* main() lines 151-153, 167-171: a crawler built with any integers the
\* command line gives, negative ones and a larger page budget included
InitCli ==
  /\ max_pages \in (-1)..(MaxPagesBound + 1)
  /\ max_depth \in (-1)..MaxDepthBound
  /\ concurrency \in (-1)..MaxConcurrency
  /\ InitState
  /\ NoCalls

\* what crawl() finds when it is called (lines 96-102)
AtCall ==
  [visited |-> visited_urls, cached |-> DOMAIN robots_cache, results |-> results,
   waves |-> hist.waves]

\* ---- crawl(start_urls) ----------------------------------------------------
\* lines 98-102
Crawl(start_urls) ==
  /\ crawl_pc = "idle"
  /\ urls_to_crawl' = start_urls
  /\ current_depth' = 0
  /\ crawl_pc' = "loop"
  /\ hist' = [hist EXCEPT !.seeds = start_urls, !.calls = @ + 1, !.at_call = AtCall]
  /\ UNCHANGED <<config, calls, shared, visited_urls, robots_cache, results, tasks, robots_doc>>

\* lines 98-102: crawl() is called again on the same crawler, with the
\* start URLs of the call before
CrawlAgain ==
  /\ crawl_pc = "done"
  /\ hist.calls < MaxCalls
  /\ urls_to_crawl' = hist.seeds
  /\ current_depth' = 0
  /\ crawl_pc' = "loop"
  /\ hist' = [hist EXCEPT !.calls = @ + 1, !.at_call = AtCall]
  /\ UNCHANGED <<config, calls, shared, visited_urls, robots_cache, results, tasks, robots_doc>>

\* lines 104-112: the loop test and, when it holds, the submission of the wave
StartWave ==
  /\ crawl_pc = "loop"
  /\ LoopCond
  /\ concurrency >= 1
  /\ tasks' = [u \in ToSubmit |-> NewTask(current_depth)]
  /\ crawl_pc' = "wave"
  /\ hist' = [hist EXCEPT
       !.dispatched = [u \in URLS |-> IF u \in ToSubmit THEN @[u] + 1 ELSE @[u]],
       !.wave_budget = max_pages - Cardinality(visited_urls),
       !.waves = @ + 1]
  /\ UNCHANGED <<config, calls, shared, visited_urls, robots_cache, results, urls_to_crawl,
                 current_depth, robots_doc>>

\* lines 104-107: the loop test holds and ThreadPoolExecutor(max_workers) raises
\* ValueError for max_workers <= 0; nothing catches it
PoolRaises ==
  /\ crawl_pc = "loop"
  /\ LoopCond
  /\ concurrency <= 0
  /\ crawl_pc' = "raised"
  /\ UNCHANGED <<config, calls, shared, visited_urls, robots_cache, results, urls_to_crawl,
                 current_depth, tasks, robots_doc, hist>>

\* line 104, the loop test fails: crawl() returns
Finish ==
  /\ crawl_pc = "loop"
  /\ ~LoopCond
  /\ crawl_pc' = "done"
  /\ UNCHANGED <<config, calls, shared, visited_urls, robots_cache, results, urls_to_crawl,
                 current_depth, tasks, robots_doc, hist>>

\* lines 115-125: every future has a result; next frontier, next depth
EndWave ==
  /\ crawl_pc = "wave"
  /\ AllReturned
  /\ urls_to_crawl' = NextFrontier(NewUrls)
  /\ current_depth' = NextDepth(current_depth)
  /\ crawl_pc' = "loop"
  /\ UNCHANGED <<config, calls, shared, visited_urls, robots_cache, results, tasks, robots_doc, hist>>

\* ---- _crawl_url(url, depth), run by a pool thread -----------------------------
\* lines 71-76, once _can_fetch has answered with parser rp
Decide(url, rp, reads) ==
  LET allowed == can_fetch(rp, url)
      t == [tasks[url] EXCEPT !.rp = rp, !.asked = TRUE, !.allowed = allowed]
  IN IF SkipForRobots(allowed)
       THEN /\ tasks' = [tasks EXCEPT ![url] = [t EXCEPT !.pc = "done"]]
            /\ visited_urls' = visited_urls
            /\ hist' = [hist EXCEPT !.denied = @ \cup {url}, !.robots_reads = reads]
       ELSE /\ tasks' = [tasks EXCEPT ![url] = [t EXCEPT !.pc = "inspect"]]
            /\ visited_urls' = MarkVisited(visited_urls, url)
            /\ hist' = [hist EXCEPT !.visit_depth = Put(@, url, t.depth),
                                    !.robots_reads = reads]

\* lines 68-69, then _can_fetch up to the cache lookup of lines 27-28
Enter(url) ==
  /\ crawl_pc = "wave"
  /\ url \in DOMAIN tasks
  /\ tasks[url].pc = "queued"
  /\ PoolHasFreeThread
  /\ IF AlreadyDone(url, tasks[url].depth)
       THEN /\ tasks' = [tasks EXCEPT ![url].pc = "done"]
            /\ UNCHANGED <<visited_urls, hist>>
       ELSE IF base_url(url) \in DOMAIN robots_cache
         THEN Decide(url, robots_cache[base_url(url)], hist.robots_reads)
         ELSE /\ tasks' = [tasks EXCEPT ![url].pc = "read"]
              /\ UNCHANGED <<visited_urls, hist>>
  /\ UNCHANGED <<config, calls, shared, robots_cache, results, urls_to_crawl, current_depth,
                 crawl_pc, robots_doc>>

\* lines 30-39: rp.read() returns and the parser is cached
ReadRobots(url) ==
  /\ crawl_pc = "wave"
  /\ url \in DOMAIN tasks
  /\ tasks[url].pc = "read"
  /\ LET o == base_url(url)
     IN \E doc \in SUBSET Paths :
          /\ o \in DOMAIN robots_doc => doc = robots_doc[o]
          /\ robots_doc' = Put(robots_doc, o, doc)
          /\ robots_cache' = Put(robots_cache, o, Parser(doc))
          /\ Decide(url, Parser(doc), [hist.robots_reads EXCEPT ![o] = @ + 1])
  /\ UNCHANGED <<config, calls, shared, results, urls_to_crawl, current_depth, crawl_pc>>

\* lines 30-38: rp.read() raises; nothing is cached and None is returned
ReadRobotsFails(url) ==
  /\ crawl_pc = "wave"
  /\ url \in DOMAIN tasks
  /\ tasks[url].pc = "read"
  /\ Decide(url, NoParser, [hist.robots_reads EXCEPT ![base_url(url)] = @ + 1])
  /\ UNCHANGED <<config, calls, shared, robots_cache, results, urls_to_crawl, current_depth,
                 crawl_pc, robots_doc>>

\* lines 80-83: the page inspector returns; a usage finding is appended
Inspect(url) ==
  /\ crawl_pc = "wave"
  /\ url \in DOMAIN tasks
  /\ tasks[url].pc = "inspect"
  /\ \E result \in check_website(url) :
       /\ results' = IF IsUsage(result) THEN Record(results, result) ELSE results
       /\ tasks' = [tasks EXCEPT ![url].pc = "fetch", ![url].finding = result]
       /\ hist' = [hist EXCEPT !.inspected[url] = @ + 1,
            !.findings = Put(@, url, result),
            !.failed = IF result.kind = "error" THEN @ \cup {url} ELSE @]
  /\ UNCHANGED <<config, calls, shared, visited_urls, robots_cache, urls_to_crawl, current_depth,
                 crawl_pc, robots_doc>>

\* lines 86-94: requests.get raises, answers not ok, or answers markup whose
\* links _extract_links returns
Fetch(url) ==
  /\ crawl_pc = "wave"
  /\ url \in DOMAIN tasks
  /\ tasks[url].pc = "fetch"
  /\ \E outcome \in {"raise", "not_ok", "ok"} :
       \E links \in {s \in SUBSET URLS : Cardinality(s) <= MaxLinks} :
         /\ outcome = "raise" => links = {}
         /\ tasks' = [tasks EXCEPT ![url].pc = "done", ![url].fetch = outcome,
                                   ![url].links = ReturnedLinks(outcome, links)]
         /\ hist' = [hist EXCEPT !.fetched = @ \cup {url},
              !.page_links = IF outcome = "ok" THEN Put(@, url, links) ELSE @,
              !.failed = IF outcome # "ok" THEN @ \cup {url} ELSE @]
  /\ UNCHANGED <<config, calls, shared, visited_urls, robots_cache, results, urls_to_crawl,
                 current_depth, crawl_pc, robots_doc>>

Worker(url) ==
  \/ Enter(url)
  \/ ReadRobots(url)
  \/ ReadRobotsFails(url)
  \/ Inspect(url)
  \/ Fetch(url)

Next ==
  \/ \E start_urls \in {s \in SUBSET URLS : Cardinality(s) <= MaxSeeds} : Crawl(start_urls)
  \/ StartWave
  \/ Finish
  \/ EndWave
  \/ \E url \in URLS : Worker(url)

Spec == Init /\ [][Next]_vars

\* The pool threads run and crawl() goes on whenever it can.
FairSpec == Spec /\ WF_vars(Next)

\* crawlers built from any command line
NextCli == Next \/ PoolRaises
SpecCli == InitCli /\ [][NextCli]_vars

\* a crawler whose crawl() is called more than once
NextAgain == Next \/ CrawlAgain
SpecAgain == Init /\ [][NextAgain]_vars

\* ---- the page inspector: src/attribution_checker.py ----------------------------
MaxScripts == 1
MaxTiles == 1
MaxElements == 2

None == "None"
SeqsUpTo(S, n) == UNION {[1..k -> S] : k \in 0..n}

\* Texts of the model and the patterns of the code that occur in each of
\* them (Python's `pattern in text`).
LeafletTag == "<script src=leaflet.js>"
OlTag == "<script src=ol.js>"
StyleRef == "https://api.maptiler.com/maps/basic/style.json"
SdkTag == "<script src=https://cdn.maptiler.com/maptiler-sdk-js/v1/maptiler-sdk.umd.js>"
LeafletSrc == "https://unpkg.com/leaflet@1.7.1/dist/leaflet.js"
OlSrc == "https://cdn.jsdelivr.net/npm/ol@latest/dist/ol.js"
OpenLayersSrc == "https://cdnjs.cloudflare.com/ajax/libs/openlayers/4.6.5/ol.js"
MapTilerSrc == "https://api.maptiler.com/maps/streets/embed.js"
MapTilerTile == "https://api.maptiler.com/maps/basic/256/10/12/15.png"
OsmTile == "https://tile.openstreetmap.org/10/12/15.png"
BothText == "(c) MapTiler (c) OpenStreetMap contributors"
MapTilerText == "(c) MapTiler"
OsmText == "(c) OpenStreetMap contributors"

Substrings(text) ==
  CASE text = LeafletTag -> {"leaflet.js", "leaflet"}
    [] text = OlTag -> {"ol.js"}
    [] text = StyleRef -> {"api.maptiler.com", ".maptiler.com/maps/", "maptiler"}
    [] text = SdkTag -> {"maptiler-sdk", "maptiler"}
    [] text = LeafletSrc -> {"leaflet.js", "leaflet"}
    [] text = OlSrc -> {"ol.js"}
    [] text = OpenLayersSrc -> {"ol.js", "openlayers"}
    [] text = MapTilerSrc -> {"api.maptiler.com", ".maptiler.com/maps/", "maptiler"}
    [] text = MapTilerTile -> {"api.maptiler.com", ".maptiler.com/maps/", "maptiler"}
    [] text = OsmTile -> {"openstreetmap"}
    [] text = "(c) maptiler (c) openstreetmap contributors" ->
         {"maptiler", "(c) maptiler", "openstreetmap", "(c) openstreetmap",
          "openstreetmap contributors"}
    [] text = "(c) maptiler" -> {"maptiler"}
    [] text = "(c) openstreetmap contributors" ->
         {"openstreetmap", "(c) openstreetmap", "openstreetmap contributors"}
    [] OTHER -> {}

\* str.lower() on the texts of the model
Lower(text) ==
  CASE text = BothText -> "(c) maptiler (c) openstreetmap contributors"
    [] text = MapTilerText -> "(c) maptiler"
    [] text = OsmText -> "(c) openstreetmap contributors"
    [] text = "Leaflet" -> "leaflet"
    [] text = "OpenLayers" -> "openlayers"
    [] text = "mapTiler" -> "maptiler"
    [] text = "(c) MapTiler" -> "(c) maptiler"
    [] text = "MapTiler Cloud" -> "maptiler cloud"
    [] text = "(c) OpenStreetMap" -> "(c) openstreetmap"
    [] text = "OpenStreetMap contributors" -> "openstreetmap contributors"
    [] OTHER -> text

\* `pattern in text`
In(pattern, text) == pattern = text \/ pattern \in Substrings(text)
\* `pattern in page_source`: the page source is the fragments it is made of
InSource(pattern, page_source) == \E fragment \in page_source : In(pattern, fragment)
Matching(patterns, text) == SelectSeq(patterns, LAMBDA p : In(p, text))
MatchingSource(patterns, page_source) ==
  SelectSeq(patterns, LAMBDA p : InSource(p, page_source))
Repeat(x, n) == [i \in 1..n |-> x]

\* lines 210-228, 231-239, 316
Libraries == <<"leaflet", "openlayers">>
library_patterns ==
  [leaflet |-> <<"leaflet.js", "L.tileLayer", "class=\"leaflet-", "leaflet.css",
                 "L.map(", "leaflet-container">>,
   openlayers |-> <<"ol.js", "ol/Map", "class=\"ol-", "ol.css", "new ol.Map",
                    "ol-map", "ol.source.XYZ">>]
maptiler_patterns ==
  <<"api.maptiler.com", "maps.maptiler.com", ".maptiler.com/maps/",
    ".maptiler.com/tiles/", "key=[a-zA-Z0-9]+", "maptiler", "tileserver.maptiler.com">>
sdk_indicators == {"@maptiler/sdk", "maptilersdk", "maptiler-sdk"}

\* the pages a driver may serve
SourceFragments == {LeafletTag, OlTag, StyleRef, SdkTag}
ScriptSrcs == {"", LeafletSrc, OlSrc, OpenLayersSrc, MapTilerSrc}
TileUrls == {MapTilerTile, OsmTile}
Absent == [present |-> FALSE, containers |-> 0]
LibraryInfos ==
  [leaflet : {Absent, [present |-> TRUE, containers |-> 1]},
   openlayers : {Absent, [present |-> TRUE, containers |-> 0]}]
AttributionElements ==
  [class : {"leaflet-control-attribution", "ol-attribution"},
   text : {BothText, MapTilerText, OsmText}]
\* the driver call that raises while the page is checked
Faults == {"none", "get", "map_elements", "js_debug", "page_source",
           "js_variables", "attribution"}
Pages ==
  [page_source : SUBSET SourceFragments,
   script_srcs : SeqsUpTo(ScriptSrcs, MaxScripts),
   tile_urls : SeqsUpTo(TileUrls, MaxTiles),
   library_info : LibraryInfos,
   elements : SeqsUpTo(AttributionElements, MaxElements),
   fault : Faults]

\* lines 147-197: the script sources, the tile URLs and the library
\* detection the page's scripts report; the defaults when a driver call raises
\* (lines 191-197)
get_js_variables(p) ==
  IF p.fault = "js_variables"
  THEN [mapUrls |-> <<>>, tileUrls |-> <<>>,
        libraryInfo |-> [leaflet |-> Absent, openlayers |-> Absent]]
  ELSE [mapUrls |-> p.script_srcs, tileUrls |-> p.tile_urls,
        libraryInfo |-> p.library_info]

Containers(n) == IF n = 1 THEN "1" ELSE IF n = 2 THEN "2" ELSE "n"

\* lines 246-282, one pass of the loop over the libraries: acc holds
\* detected_library and found_indicators
LibraryPass(acc, library, page_source, js_variables) ==
  LET lib_info == js_variables.libraryInfo[library]
      by_js == lib_info.present
      js_found ==
        IF by_js
        THEN <<<<library, "js_detection">>>> \o
             (IF lib_info.containers > 0
              THEN <<<<library, "containers", Containers(lib_info.containers)>>>>
              ELSE <<>>)
        ELSE <<>>
      detected1 == IF by_js THEN library ELSE acc.detected
      in_source == IF by_js THEN <<>>
                   ELSE MatchingSource(library_patterns[library], page_source)
      found1 == by_js \/ in_source # <<>>
      detected2 == IF ~by_js /\ in_source # <<>> /\ detected1 = None
                   THEN library ELSE detected1
      in_scripts == SelectSeq(js_variables.mapUrls,
                      LAMBDA url : url # "" /\ In(library, Lower(url)))
      detected3 == IF ~found1 /\ in_scripts # <<>> /\ detected2 = None
                   THEN library ELSE detected2
  IN [detected |-> detected3,
      found |-> acc.found \o js_found
                \o [i \in 1..Len(in_source) |-> <<library, in_source[i]>>]
                \o [i \in 1..Len(in_scripts) |-> <<library, "script", in_scripts[i]>>]]

\* lines 289-305: one indicator per MapTiler pattern a URL holds
RECURSIVE UrlIndicators(_, _)
UrlIndicators(tag, urls) ==
  IF urls = <<>> THEN <<>>
  ELSE (IF Head(urls) = "" THEN <<>>
        ELSE Repeat(<<tag, Head(urls)>>, Len(Matching(maptiler_patterns, Head(urls)))))
       \o UrlIndicators(tag, Tail(urls))

\* lines 308-313
SourceIndicators(page_source) ==
  LET m == MatchingSource(maptiler_patterns, page_source)
  IN [i \in 1..Len(m) |-> <<"source", m[i]>>]

\* line 326 as it would read if only MapTiler indicators counted
IsUsingMaptilerOnlyMaptiler(library_found, maptiler_found) == maptiler_found # <<>>
\* line 326: is_using_maptiler = len(found_indicators) > 0
IsUsingMaptiler(library_found, maptiler_found) ==
  Len(library_found \o maptiler_found) > 0

\* lines 316-324 without the exclusion
UsingSdkNever(page_source) == FALSE
\* lines 316-317
UsingSdk(page_source) == \E indicator \in sdk_indicators : InSource(indicator, page_source)

\* lines 199-335
check_map_usage(page_source, js_variables) ==
  LET start == [detected |-> None, found |-> <<>>]
      pass1 == LibraryPass(start, Libraries[1], page_source, js_variables)
      pass2 == LibraryPass(pass1, Libraries[2], page_source, js_variables)
      maptiler_found == UrlIndicators("tile", js_variables.tileUrls)
                        \o UrlIndicators("script", js_variables.mapUrls)
                        \o SourceIndicators(page_source)
  IN IF UsingSdk(page_source)
     THEN [using_maptiler |-> FALSE, library |-> None, indicators_found |-> <<>>]
     ELSE [using_maptiler |-> IsUsingMaptiler(pass2.found, maptiler_found),
           library |-> pass2.detected,
           indicators_found |-> pass2.found \o maptiler_found]

\* (variant: only the first attribution element is looked at)
AttributionLoopFirstOnly(elements, issues) ==
  IF elements = <<>> THEN [found |-> FALSE, issues |-> issues]
  ELSE LET attribution_text == Lower(Head(elements).text)
           maptiler_found == In("maptiler", attribution_text)
           osm_found == In("openstreetmap", attribution_text)
       IN [found |-> maptiler_found /\ osm_found,
           issues |-> issues
             \o (IF maptiler_found THEN <<>> ELSE <<"Missing MapTiler attribution">>)
             \o (IF osm_found THEN <<>> ELSE <<"Missing OpenStreetMap attribution">>)]

\* lines 382-396: the loop over the attribution elements, left at the
\* first element that names both
RECURSIVE AttributionLoop(_, _)
AttributionLoop(elements, issues) ==
  IF elements = <<>> THEN [found |-> FALSE, issues |-> issues]
  ELSE LET attribution_text == Lower(Head(elements).text)
           maptiler_found == In("maptiler", attribution_text)
           osm_found == In("openstreetmap", attribution_text)
           issues1 == issues
             \o (IF maptiler_found THEN <<>> ELSE <<"Missing MapTiler attribution">>)
             \o (IF osm_found THEN <<>> ELSE <<"Missing OpenStreetMap attribution">>)
       IN IF maptiler_found /\ osm_found
          THEN [found |-> TRUE, issues |-> issues1]
          ELSE AttributionLoop(Tail(elements), issues1)

\* lines 368-371: find_elements by the class of the library
AttributionClass(library_type) ==
  IF Lower(library_type) = "leaflet" THEN "leaflet-control-attribution"
  ELSE IF Lower(library_type) = "openlayers" THEN "ol-attribution"
  ELSE "no class"

\* line 377: f'No attribution element found for {library_type}'
NoElementIssue(library_type) ==
  CASE library_type = "leaflet" -> "No attribution element found for leaflet"
    [] library_type = "openlayers" -> "No attribution element found for openlayers"
    [] library_type = "Leaflet" -> "No attribution element found for Leaflet"
    [] library_type = "OpenLayers" -> "No attribution element found for OpenLayers"
    [] OTHER -> "No attribution element found for another library"

\* (variant: the issues gathered before the proper element are returned)
ProperStatusKeepsIssues(issues) == [has_proper_attribution |-> TRUE, issues |-> issues]
\* lines 398-403
ProperStatus(issues) == [has_proper_attribution |-> TRUE, issues |-> <<>>]

\* lines 337-416
check_attribution(library_type, p) ==
  IF library_type \in {None, ""}
  THEN [has_proper_attribution |-> FALSE, issues |-> <<"Unknown library type: None">>]
  ELSE IF p.fault = "attribution"
  THEN [has_proper_attribution |-> FALSE, issues |-> <<"Error checking attribution">>]
  ELSE LET attribution_elements ==
             SelectSeq(p.elements, LAMBDA el : el.class = AttributionClass(library_type))
           loop == AttributionLoop(attribution_elements, <<>>)
       IN IF attribution_elements = <<>>
          THEN [has_proper_attribution |-> FALSE,
                issues |-> <<NoElementIssue(library_type)>>]
          ELSE IF loop.found
          THEN ProperStatus(loop.issues)
          ELSE [has_proper_attribution |-> FALSE, issues |-> loop.issues]

\* what a call of check_website produces
Outcome(kind, url, error, usage_info, attribution_status) ==
  [kind |-> kind, url |-> url, error |-> error,
   uses_maptiler |-> kind = "usage",
   map_library |-> usage_info.library,
   maptiler_indicators |-> usage_info.indicators_found,
   has_proper_attribution |-> attribution_status.has_proper_attribution,
   issues |-> attribution_status.issues]
NoUsageInfo == [using_maptiler |-> FALSE, library |-> None, indicators_found |-> <<>>]
NoAttributionStatus == [has_proper_attribution |-> FALSE, issues |-> <<>>]

\* the handler of lines 139-145 left out: the exception leaves check_website
OnExceptionPropagates(url, fault) ==
  Outcome("raised", url, fault, NoUsageInfo, NoAttributionStatus)
\* lines 139-145
OnException(url, fault) == Outcome("error", url, fault, NoUsageInfo, NoAttributionStatus)

\* the driver calls of lines 54-105 that the handler of line 139 alone guards
OuterFaults == {"get", "js_debug", "page_source"}

\* lines 48-145
CheckWebsiteOn(p, url) ==
  IF p.fault \in OuterFaults THEN OnException(url, p.fault)
  ELSE LET usage_info == check_map_usage(p.page_source, get_js_variables(p))
       IN IF ~usage_info.using_maptiler
          THEN Outcome("none", None, None, NoUsageInfo, NoAttributionStatus)
          ELSE Outcome("usage", url, None, usage_info,
                       check_attribution(usage_info.library, p))

\* ---- one check_website call on any page ---------------------------------------
InitInspector ==
  /\ max_pages = 1
  /\ max_depth = 0
  /\ concurrency = 1
  /\ InitState
  /\ page \in Pages
  /\ checked = NotCalled
  /\ markup = NoMarkup
  /\ extracted = <<>>
  /\ NoThreads

CheckWebsite(url) ==
  /\ checked = NotCalled
  /\ page \in Pages
  /\ checked' = [url |-> url, result |-> CheckWebsiteOn(page, url)]
  /\ UNCHANGED <<config, visited_urls, robots_cache, results, urls_to_crawl,
                 current_depth, crawl_pc, tasks, robots_doc, hist, page, markup,
                 extracted, shared>>

NextInspector == \E url \in URLS : CheckWebsite(url)
SpecInspector == InitInspector /\ [][NextInspector]_vars

\* ---- one _check_attribution call on any library type and elements ------------------
LibraryTypes == {None, "", "leaflet", "Leaflet", "openlayers", "OpenLayers", "mapbox"}
AttributionPages ==
  [page_source : {{}}, script_srcs : {<<>>}, tile_urls : {<<>>},
   library_info : {[leaflet |-> Absent, openlayers |-> Absent]},
   elements : SeqsUpTo(AttributionElements, MaxElements),
   fault : {"none", "attribution"}]

InitAttribution ==
  /\ max_pages = 1
  /\ max_depth = 0
  /\ concurrency = 1
  /\ InitState
  /\ page \in AttributionPages
  /\ checked = NotCalled
  /\ markup = NoMarkup
  /\ extracted = <<>>
  /\ NoThreads

CheckAttribution(library_type) ==
  /\ checked = NotCalled
  /\ page \in AttributionPages
  /\ checked' = [url |-> None,
                 result |-> [kind |-> "attribution", library_type |-> library_type,
                             status |-> check_attribution(library_type, page)]]
  /\ UNCHANGED <<config, visited_urls, robots_cache, results, urls_to_crawl,
                 current_depth, crawl_pc, tasks, robots_doc, hist, page, markup,
                 extracted, shared>>

NextAttribution == \E library_type \in LibraryTypes : CheckAttribution(library_type)
SpecAttribution == InitAttribution /\ [][NextAttribution]_vars

\* ---- _crawl_url lines 75-83 on any page: the inspector and the result list ----------
CrawlPage(url) ==
  /\ checked = NotCalled
  /\ page \in Pages
  /\ visited_urls' = MarkVisited(visited_urls, url)
  /\ LET result == CheckWebsiteOn(page, url)
     IN /\ checked' = [url |-> url, result |-> result]
        /\ results' = IF IsUsage(result) THEN Record(results, result) ELSE results
  /\ UNCHANGED <<config, robots_cache, urls_to_crawl, current_depth, crawl_pc, tasks,
                 robots_doc, hist, page, markup, extracted, shared>>

NextCrawlPage == \E url \in URLS : CrawlPage(url)
SpecCrawlPage == InitInspector /\ [][NextCrawlPage]_vars

\* ---- _extract_links: src/web_crawler.py lines 52-64 ------------------------------
MaxAnchors == 3
MaxExtractCalls == 2

\* A URL reference as urlparse splits it: scheme, netloc and the path as
\* str.split('/') gives it ("/page2" is <<"", "page2">>, "" is <<"">>).
Ref(scheme, netloc, path) == [scheme |-> scheme, netloc |-> netloc, path |-> path]
\* the <a> tags of a document: the href of each, when it has one
Anchor(ref) == [has_href |-> TRUE, href |-> ref]
NoHref == [has_href |-> FALSE, href |-> Ref("", "", <<"">>)]
Hrefs ==
  { Ref("https", "example.com", <<"", "page1">>),   \* https://example.com/page1
    Ref("", "", <<"", "page2">>),                   \* /page2
    Ref("", "", <<"page3">>),                       \* page3
    Ref("mailto", "", <<"someone@example.com">>),   \* mailto:someone@example.com
    Ref("", "b.test", <<"", "p">>),                 \* //b.test/p
    Ref("", "", <<"">>),                            \* the empty href
    Ref("http", "b.test", <<"", "">>),              \* http://b.test/
    Ref("http", "", <<"page3">>) }                  \* http:page3
Anchors == {Anchor(h) : h \in Hrefs} \cup {NoHref}
BaseUrls ==
  { Ref("https", "example.com", <<"">>),                \* https://example.com
    Ref("https", "a.test", <<"", "dir", "index.html">>), \* https://a.test/dir/index.html
    Ref("http", "a.test", <<"", "dir", "">>) }           \* http://a.test/dir/
Markups ==
  [base : BaseUrls, anchors : SeqsUpTo(Anchors, MaxAnchors), parser_raises : BOOLEAN]

\* urllib.parse: the schemes urljoin resolves relative references for
uses_relative == {"", "http", "https", "ftp", "file"}
Last(s) == s[Len(s)]
Front(s) == SubSeq(s, 1, Len(s) - 1)
\* urljoin: segments[1:-1] = filter(None, segments[1:-1])
DropEmptyMiddle(segments) ==
  IF Len(segments) < 3 THEN segments
  ELSE <<Head(segments)>>
       \o SelectSeq(SubSeq(segments, 2, Len(segments) - 1), LAMBDA x : x # "")
       \o <<Last(segments)>>

\* urllib.parse.urljoin(base, url) for the references of the model (no
\* "." or ".." segment, no query, no fragment)
urljoin(base, url) ==
  LET scheme == IF url.scheme = "" THEN base.scheme ELSE url.scheme
      base_parts == IF Last(base.path) # "" THEN Front(base.path) ELSE base.path
      segments == IF Len(url.path) > 1 /\ Head(url.path) = "" THEN url.path
                  ELSE DropEmptyMiddle(base_parts \o url.path)
  IN IF scheme # base.scheme \/ scheme \notin uses_relative THEN url
     ELSE IF url.netloc # "" THEN Ref(scheme, url.netloc, url.path)
     ELSE IF url.path = <<"">> THEN Ref(scheme, base.netloc, base.path)
     ELSE Ref(scheme, base.netloc, segments)

\* line 60 without the test
StartsWithAnything(absolute_url) == TRUE
\* line 60: absolute_url.startswith(('http://', 'https://'))
StartsWithHttp(absolute_url) ==
  absolute_url.scheme \in {"http", "https"} /\ absolute_url.netloc # ""

\* lines 52-64; an exception of the parser leaves the set empty (62-63)
extract_links(m) ==
  IF m.parser_raises THEN {}
  ELSE {u \in {urljoin(m.base, m.anchors[i].href) :
                 i \in {k \in 1..Len(m.anchors) : m.anchors[k].has_href}} :
          StartsWithHttp(u)}

\* ---- _extract_links called on any document --------------------------------------
InitExtract ==
  /\ max_pages = 1
  /\ max_depth = 0
  /\ concurrency = 1
  /\ InitState
  /\ page = NoPage
  /\ checked = NotCalled
  /\ markup \in Markups
  /\ extracted = <<>>
  /\ NoThreads

ExtractLinks ==
  /\ markup \in Markups
  /\ Len(extracted) < MaxExtractCalls
  /\ extracted' = Append(extracted, extract_links(markup))
  /\ UNCHANGED <<config, visited_urls, robots_cache, results, urls_to_crawl,
                 current_depth, crawl_pc, tasks, robots_doc, hist, page, checked,
                 markup, shared>>

NextExtract == ExtractLinks
SpecExtract == InitExtract /\ [][NextExtract]_vars

\* ---- _crawl_url calls side by side on one crawler ---------------------------------
MaxThreads == 2
Threads == 1..MaxThreads

\* pages of the world: one that uses MapTiler through Leaflet and carries
\* the attribution, and one without any map
MapPage ==
  [page_source |-> {LeafletTag}, script_srcs |-> <<>>, tile_urls |-> <<MapTilerTile>>,
   library_info |-> [leaflet |-> Absent, openlayers |-> Absent],
   elements |-> <<[class |-> "leaflet-control-attribution", text |-> BothText]>>,
   fault |-> "none"]
PlainPage ==
  [page_source |-> {}, script_srcs |-> <<>>, tile_urls |-> <<>>,
   library_info |-> [leaflet |-> Absent, openlayers |-> Absent],
   elements |-> <<>>, fault |-> "none"]
SamplePages == {MapPage, PlainPage}

\* a pool thread before executor.submit hands it a call
IdleThread ==
  [pc |-> "idle", url |-> None, claimed |-> FALSE,
   finding |-> Outcome("not_called", None, None, NoUsageInfo, NoAttributionStatus),
   links |-> {}]

\* a crawler whose pool threads are about to run _crawl_url calls
InitThreads ==
  /\ max_pages = MaxPagesBound
  /\ max_depth = 0
  /\ concurrency = MaxThreads
  /\ InitState
  /\ page = NoPage
  /\ checked = NotCalled
  /\ markup = NoMarkup
  /\ extracted = <<>>
  /\ threads = [w \in Threads |-> IdleThread]
  /\ driver = None
  /\ site \in [URLS -> SamplePages]

\* what the steps of a thread leave alone
ThreadFrame ==
  UNCHANGED <<config, calls, urls_to_crawl, current_depth, crawl_pc, tasks, hist, site>>

\* a thread starts _crawl_url(url, 0)
CallCrawlUrl(w, url) ==
  /\ threads[w].pc = "idle"
  /\ threads' = [threads EXCEPT ![w].pc = "entered", ![w].url = url]
  /\ UNCHANGED <<visited_urls, robots_cache, results, robots_doc, driver>>
  /\ ThreadFrame

\* lines 68-69
TestVisited(w) ==
  /\ threads[w].pc = "entered"
  /\ threads' = [threads EXCEPT ![w].pc =
       IF AlreadyDone(threads[w].url, 0) THEN "done" ELSE "can_fetch"]
  /\ UNCHANGED <<visited_urls, robots_cache, results, robots_doc, driver>>
  /\ ThreadFrame

\* lines 71-76, with parser rp from the cache or from a read
Claim(w, rp) ==
  IF SkipForRobots(can_fetch(rp, threads[w].url))
  THEN /\ threads' = [threads EXCEPT ![w].pc = "done"]
       /\ visited_urls' = visited_urls
  ELSE /\ threads' = [threads EXCEPT ![w].pc = "get", ![w].claimed = TRUE]
       /\ visited_urls' = MarkVisited(visited_urls, threads[w].url)

\* lines 71-76: _can_fetch answers (from the cache, from a read that is then
\* cached, or from a read that raised) and the URL is marked visited
CanFetch(w) ==
  /\ threads[w].pc = "can_fetch"
  /\ LET o == base_url(threads[w].url)
     IN IF o \in DOMAIN robots_cache
        THEN /\ Claim(w, robots_cache[o])
             /\ UNCHANGED <<robots_cache, robots_doc>>
        ELSE \/ \E doc \in SUBSET Paths :
                  /\ o \in DOMAIN robots_doc => doc = robots_doc[o]
                  /\ robots_doc' = Put(robots_doc, o, doc)
                  /\ robots_cache' = Put(robots_cache, o, Parser(doc))
                  /\ Claim(w, Parser(doc))
             \/ /\ Claim(w, NoParser)
                /\ UNCHANGED <<robots_cache, robots_doc>>
  /\ UNCHANGED <<results, driver>>
  /\ ThreadFrame

\* attribution_checker.py line 54: self.driver.get(url) on the one browser
Get(w) ==
  /\ threads[w].pc = "get"
  /\ driver' = threads[w].url
  /\ threads' = [threads EXCEPT ![w].pc = "loaded"]
  /\ UNCHANGED <<visited_urls, robots_cache, results, robots_doc>>
  /\ ThreadFrame

\* attribution_checker.py lines 63-137 read the page the browser holds now;
\* web_crawler.py lines 81-83 append a usage finding
ReadPage(w) ==
  /\ threads[w].pc = "loaded"
  /\ LET result == CheckWebsiteOn(site[driver], threads[w].url)
     IN /\ results' = IF IsUsage(result) THEN Record(results, result) ELSE results
        /\ threads' = [threads EXCEPT ![w].pc = "fetch", ![w].finding = result]
  /\ UNCHANGED <<visited_urls, robots_cache, robots_doc, driver>>
  /\ ThreadFrame

\* lines 86-94
FetchLinks(w) ==
  /\ threads[w].pc = "fetch"
  /\ \E outcome \in {"raise", "not_ok", "ok"} :
       \E links \in {s \in SUBSET URLS : Cardinality(s) <= MaxLinks} :
         /\ outcome # "ok" => links = {}
         /\ threads' = [threads EXCEPT ![w].pc = "done",
                                       ![w].links = ReturnedLinks(outcome, links)]
  /\ UNCHANGED <<visited_urls, robots_cache, results, robots_doc, driver>>
  /\ ThreadFrame

NextThreads ==
  \E w \in Threads :
    \/ \E url \in URLS : CallCrawlUrl(w, url)
    \/ TestVisited(w)
    \/ CanFetch(w)
    \/ Get(w)
    \/ ReadPage(w)
    \/ FetchLinks(w)
SpecThreads == InitThreads /\ [][NextThreads]_vars

\* ---- claims ------------------------------------------------------------------
Done == crawl_pc = "done"
Inspected == {u \in URLS : hist.inspected[u] > 0}
WaveTasks == DOMAIN tasks

\* C1: in every reachable state the number of visited URLs
\* (total_pages_crawled) is at most max_pages.
C1_BoundedWork == Cardinality(visited_urls) <= max_pages

\* C2: a wave dispatches at most max_pages - |visited_urls| URLs of the
\* frontier (the visited set taken at the start of the wave); the others are
\* not dispatched.
C2_WaveClaimCap == Cardinality(WaveTasks) <= hist.wave_budget

\* C3 (as stated): every URL is dispatched to the pool at most once in a run.
C3_NoDuplicateDispatch == \A u \in URLS : hist.dispatched[u] <= 1

\* C3 (amended): every URL is inspected at most once in a run, and a URL that
\* is dispatched more than once is one robots.txt disallowed, which is not in
\* the visited set and was never inspected or fetched.
C3_NoDuplicateVisit ==
  \A u \in URLS :
    /\ hist.inspected[u] <= 1
    /\ hist.dispatched[u] > 1 =>
         /\ u \in hist.denied
         /\ u \notin visited_urls
         /\ hist.inspected[u] = 0
         /\ u \notin hist.fetched

C3_Witness ==
  /\ Done
  /\ \E u \in URLS : hist.dispatched[u] = 2
  /\ \E u \in URLS : hist.inspected[u] = 1 /\ hist.dispatched[u] = 1

\* C4: once crawl() is called it reaches its return, whatever the pages link
\* to and whatever fails, provided the pool threads keep running.
C4_Termination == (crawl_pc # "idle") ~> Done

C4_Witness ==
  /\ Done
  /\ hist.waves = max_depth + 1
  /\ hist.waves >= 2
  /\ urls_to_crawl # {}
  /\ \E u \in WaveTasks : Failed(tasks[u])

\* C5: no wave is dispatched, and no URL is marked visited or inspected, at a
\* depth greater than max_depth.
C5_DepthBound ==
  /\ crawl_pc = "wave" => current_depth <= max_depth
  /\ \A u \in WaveTasks : tasks[u].depth <= max_depth
  /\ \A u \in DOMAIN hist.visit_depth : hist.visit_depth[u] <= max_depth

C5_Witness ==
  /\ max_depth >= 1
  /\ crawl_pc = "wave"
  /\ current_depth = max_depth
  /\ \E u \in WaveTasks : tasks[u].pc = "fetch" /\ hist.visit_depth[u] = max_depth

\* C6: robots.txt is read at most once per origin in a run.
C6_RobotsFetchedOnce == \A o \in Origins : hist.robots_reads[o] <= 1

\* C7: when the robots.txt read fails, _can_fetch answers True and the unit
\* of work goes on: the URL is marked visited and handed to the inspector.
C7_FailOpen ==
  \A u \in WaveTasks :
    (tasks[u].asked /\ ~tasks[u].rp.ok) =>
      /\ tasks[u].allowed
      /\ tasks[u].pc \in {"inspect", "fetch", "done"}
      /\ u \in visited_urls
      /\ (tasks[u].pc = "done" => hist.inspected[u] = 1)

C7_Witness ==
  \E u \in WaveTasks :
    /\ tasks[u].asked /\ ~tasks[u].rp.ok
    /\ tasks[u].pc = "done"
    /\ hist.robots_reads[base_url(u)] >= 1

\* C8: a URL for which _can_fetch answered "disallowed" is not in the visited
\* set, was not inspected, was not fetched, has no result, and its unit of
\* work returns no links.
C8_DisallowedSkipped ==
  /\ hist.denied \cap (visited_urls \cup Inspected \cup hist.fetched) = {}
  /\ \A i \in 1..Len(results) : results[i].url \notin hist.denied
  /\ \A u \in WaveTasks :
       (tasks[u].asked /\ ~tasks[u].allowed) =>
         /\ tasks[u].pc = "done"
         /\ tasks[u].links = {}
         /\ u \in hist.denied

C8_Witness ==
  /\ Done
  /\ hist.denied # {}
  /\ visited_urls # {}
  /\ \E u \in WaveTasks : tasks[u].asked /\ ~tasks[u].allowed

\* C9 (as stated): a URL whose unit of work failed (error finding, fetch
\* exception, response not ok) is in the visited set, its unit returned no
\* links, and it is dispatched no second time.
C9_FailedUnitNoLinks ==
  /\ \A u \in hist.failed : u \in visited_urls /\ hist.dispatched[u] = 1
  /\ \A u \in WaveTasks :
       (tasks[u].pc = "done" /\ Failed(tasks[u])) => tasks[u].links = {}

\* C9 (amended): a URL whose unit of work failed is in the visited set and is
\* dispatched no second time; its unit returns no links when requests.get
\* raised or the response was not ok, and the crawl goes on to the end of the
\* wave.  (After an error finding alone the markup is still fetched and its
\* links are returned.)
C9_ErrorIsolation ==
  /\ \A u \in hist.failed :
       /\ u \in visited_urls
       /\ hist.dispatched[u] = 1
       /\ hist.inspected[u] = 1
  /\ \A u \in WaveTasks :
       (tasks[u].pc = "done" /\ tasks[u].fetch \in {"raise", "not_ok"}) =>
         tasks[u].links = {}

C9_Witness ==
  /\ Done
  /\ hist.waves >= 2
  /\ \E u \in hist.failed : u \notin WaveTasks
  /\ \E u \in WaveTasks : tasks[u].fetch = "not_ok" /\ tasks[u].finding.kind = "error"

\* the wave is over and every unit of it failed / failed to fetch its markup
WaveAllFailed ==
  /\ crawl_pc = "wave"
  /\ WaveTasks # {}
  /\ \A u \in WaveTasks : tasks[u].pc = "done" /\ Failed(tasks[u])
WaveAllFetchFailed ==
  /\ WaveAllFailed
  /\ \A u \in WaveTasks : tasks[u].fetch \in {"raise", "not_ok"}
LastWaveAllFailed ==
  /\ crawl_pc = "loop"
  /\ WaveTasks # {}
  /\ \A u \in WaveTasks : Failed(tasks[u])

\* C10 (as stated): after a wave in which every unit failed, the next
\* frontier is empty.
C10_AllFailedFrontierEmpty == LastWaveAllFailed => urls_to_crawl = {}

\* C10 (amended): a wave in which every unit failed completes, the depth
\* advances and crawl() returns; the next frontier is empty when every unit
\* failed to fetch its markup (after error findings alone the links of the
\* fetched markup form the next frontier).
C10_AllFailedWave ==
  /\ [][WaveAllFailed =>
          /\ crawl_pc' = "loop"
          /\ current_depth' = current_depth + 1
          /\ (WaveAllFetchFailed => urls_to_crawl' = {})]_vars
  /\ (WaveAllFailed ~> Done)

C10_Witness ==
  /\ Done
  /\ hist.waves = 1
  /\ current_depth = 1
  /\ max_depth >= 1
  /\ Cardinality(visited_urls) < max_pages
  /\ urls_to_crawl = {}
  /\ WaveTasks # {}
  /\ \A u \in WaveTasks : tasks[u].fetch \in {"raise", "not_ok"}

\* the findings the inspector returned for the claimed URLs
Returned(kind) == {u \in DOMAIN hist.findings : hist.findings[u].kind = kind}
Occurrences(f) == Cardinality({i \in 1..Len(results) : results[i] = f})

\* C11 (as stated): whenever the inspector returned an error Finding for a
\* claimed URL, results holds an error entry for that URL.
C11_ErrorsInResults ==
  \A u \in Returned("error") :
    \E i \in 1..Len(results) : results[i].kind = "error" /\ results[i].url = u

\* C12: when crawl() has returned, total_pages_crawled is the number of
\* claimed URLs (those handed to the inspector, failed ones included) and
\* maptiler_pages_found is the number of claimed URLs whose Finding is a
\* usage Finding, which is the length of results.
C12_ReportCounts ==
  Done =>
    /\ SaveResults.total_pages_crawled = Cardinality(Inspected)
    /\ SaveResults.maptiler_pages_found = Cardinality(Returned("usage"))
    /\ SaveResults.maptiler_pages_found = Len(SaveResults.results)

C12_Witness ==
  /\ Done
  /\ SaveResults.total_pages_crawled = 2
  /\ SaveResults.maptiler_pages_found = 1
  /\ hist.failed # {}

\* C13: under every interleaving of the workers, each usage Finding the
\* inspector returned for a claimed URL is in results exactly once and
\* unchanged (URL, has_proper_attribution and issues), and results holds
\* nothing else.
C13_NoResultLost ==
  /\ \A u \in Returned("usage") : Occurrences(hist.findings[u]) = 1
  /\ \A i \in 1..Len(results) :
       /\ results[i].url \in Returned("usage")
       /\ results[i] = hist.findings[results[i].url]
  /\ Len(results) = Cardinality(Returned("usage"))

C13_Witness ==
  /\ Len(results) = 2
  /\ tasks[results[1].url].depth = tasks[results[2].url].depth
  /\ concurrency >= 2
  /\ ~results[1].has_proper_attribution
  /\ results[1].issues # <<>>
  /\ results[2].has_proper_attribution

\* C20: the frontier of the next wave is computed, and the next wave is
\* submitted, only when every unit of the wave has returned; all units in
\* flight have the depth of the current wave.
C20_WaveBarrier ==
  /\ [][(crawl_pc = "wave" /\ (urls_to_crawl' # urls_to_crawl
                                \/ current_depth' # current_depth
                                \/ crawl_pc' # "wave"))
          => \A u \in WaveTasks : tasks[u].pc = "done"]_vars
  /\ [][tasks' # tasks /\ crawl_pc' = "wave" /\ crawl_pc # "wave"
          => \A u \in WaveTasks : tasks[u].pc = "done"]_vars
  /\ [](crawl_pc = "wave" => \A u \in WaveTasks : tasks[u].depth = current_depth)
  /\ [](Running # {} => crawl_pc = "wave")

C20_Witness ==
  /\ crawl_pc = "wave"
  /\ current_depth = 1
  /\ hist.waves = 2
  /\ Running # {}
  /\ \E u \in hist.fetched : u \notin WaveTasks

\* bounds no crawl can run with
InvalidBounds == max_pages < 0 \/ max_depth < 0 \/ concurrency < 0
NothingDone ==
  /\ visited_urls = {}
  /\ results = <<>>
  /\ hist.waves = 0
  /\ \A o \in Origins : hist.robots_reads[o] = 0
  /\ Inspected = {}

\* C14: with a negative max_pages, max_depth or concurrency, crawl() raises
\* before any URL is claimed, any robots.txt is read or any page is inspected,
\* for every seed set; it never returns as if it had crawled.
C14_InvalidBoundsRejected ==
  InvalidBounds => (crawl_pc \in {"idle", "loop", "raised"} /\ NothingDone)

\* C15 (as stated): every crawl() call finds an empty visited set, an empty
\* robots cache and an empty result list.
C15_FreshStatePerCall ==
  hist.calls >= 1 =>
    /\ hist.at_call.visited = {}
    /\ hist.at_call.cached = {}
    /\ hist.at_call.results = <<>>

\* C15 (amended): the visited set, the robots cache and the result list
\* belong to the crawler object: a later crawl() call keeps what the calls
\* before left, processes no URL a second time, and runs no wave when the
\* pages visited before already fill max_pages.
C15_StateKeptAcrossCalls ==
  /\ hist.at_call.visited \subseteq visited_urls
  /\ hist.at_call.cached \subseteq DOMAIN robots_cache
  /\ Len(hist.at_call.results) <= Len(results)
  /\ SubSeq(results, 1, Len(hist.at_call.results)) = hist.at_call.results
  /\ \A u \in URLS : hist.inspected[u] <= 1
  /\ Cardinality(hist.at_call.visited) >= max_pages => hist.waves = hist.at_call.waves
  /\ (hist.calls >= 2 /\ crawl_pc # "done") => hist.at_call.visited = Inspected

C15_Witness ==
  /\ hist.calls = 2
  /\ Done
  /\ hist.waves > hist.at_call.waves
  /\ hist.at_call.visited # {}
  /\ hist.at_call.visited = visited_urls
  /\ hist.seeds \cap visited_urls # {}
  /\ hist.at_call.results # <<>>

\* the pages within k links of the URLs of S, by the links the fetched
\* markup held
LinksOf(u) == IF u \in DOMAIN hist.page_links THEN hist.page_links[u] ELSE {}
RECURSIVE Within(_, _)
Within(S, k) == IF k <= 0 THEN S ELSE Within(S \cup UNION {LinksOf(u) : u \in S}, k - 1)

\* max_pages was not reached, robots.txt disallowed nothing and every markup
\* fetch succeeded
CleanRun ==
  /\ Done
  /\ hist.calls = 1
  /\ max_depth >= 0
  /\ Cardinality(visited_urls) < max_pages
  /\ hist.denied = {}
  /\ hist.fetched \subseteq DOMAIN hist.page_links

Checked == checked.result.kind # "not_called"
WithFault(p, f) == [p EXCEPT !.fault = f]
\* the page as _check_map_usage sees it after _get_js_variables fell back to
\* its defaults
WithoutJs(p) ==
  [p EXCEPT !.script_srcs = <<>>, !.tile_urls = <<>>,
            !.library_info = [leaflet |-> Absent, openlayers |-> Absent],
            !.fault = "none"]

\* C17 (as stated): check_website never raises and returns one outcome, and
\* every fault of a driver call (page load, script evaluation, element
\* lookup) comes back as an error finding carrying the URL.
C17_EveryFaultIsAnErrorFinding ==
  Checked =>
    /\ checked.result.kind \in {"usage", "none", "error"}
    /\ page.fault # "none" =>
         (checked.result.kind = "error" /\ checked.result.url = checked.url)

\* C17 (amended): check_website never raises and returns exactly one of a
\* usage finding, no finding or an error finding. A fault of the page load,
\* of the script evaluation of line 89 or of reading the page source comes
\* back as an error finding carrying the URL. A fault of the element lookup
\* of lines 68-85 is logged and ignored, a fault inside _get_js_variables
\* makes the detection run on the page source alone, and a fault inside
\* _check_attribution makes a usage finding without proper attribution whose
\* issue names the error: none of these is an error finding.
C17_NeverRaises ==
  Checked =>
    LET r == checked.result IN
    /\ r.kind \in {"usage", "none", "error"}
    /\ r.kind = "usage" => (r.uses_maptiler /\ r.error = None /\ r.url = checked.url)
    /\ r.kind = "error" => (~r.uses_maptiler /\ r.url = checked.url
                            /\ r.error = page.fault /\ r.maptiler_indicators = <<>>)
    /\ r.kind = "error" <=> page.fault \in OuterFaults
    /\ page.fault = "map_elements" =>
         r = CheckWebsiteOn(WithFault(page, "none"), checked.url)
    /\ page.fault = "js_variables" => r = CheckWebsiteOn(WithoutJs(page), checked.url)
    /\ (page.fault = "attribution" /\ r.kind = "usage" /\ r.map_library # None) =>
         (~r.has_proper_attribution /\ r.issues = <<"Error checking attribution">>)

\* an element lookup raised and a usage finding came back all the same
C17_Witness ==
  /\ Checked
  /\ page.fault = "map_elements"
  /\ checked.result.kind = "usage"
  /\ checked.result.has_proper_attribution

\* _extract_links has been called twice on the same document
ExtractedTwice == Len(extracted) = MaxExtractCalls
\* the href is relative: it names neither a scheme nor a host
Relative(ref) == ref.scheme = "" /\ ref.netloc = ""

\* C18: two calls of _extract_links on the same base URL and document return
\* the same set; the set holds only absolute http or https URLs, with every
\* relative href resolved against the base URL; the visited set, the robots
\* cache and the results are as they were.
C18_ExtractLinksPure ==
  /\ \A i, j \in 1..Len(extracted) : extracted[i] = extracted[j]
  /\ \A i \in 1..Len(extracted) : \A u \in extracted[i] :
       /\ u.scheme \in {"http", "https"}
       /\ u.netloc # ""
       /\ Head(u.path) = ""
  /\ \A i \in 1..Len(extracted) : \A k \in 1..Len(markup.anchors) :
       LET a == markup.anchors[k] IN
       (a.has_href /\ Relative(a.href) /\ ~markup.parser_raises) =>
         \E u \in extracted[i] :
           /\ u.scheme = markup.base.scheme
           /\ u.netloc = markup.base.netloc
           /\ Last(u.path) = Last(IF a.href.path = <<"">> THEN markup.base.path
                                  ELSE a.href.path)
  /\ visited_urls = {} /\ robots_cache = <<>> /\ results = <<>>

\* the document of test_extract_links: an absolute, a rooted and a relative
\* href, base https://example.com
C18_Witness ==
  /\ ExtractedTwice
  /\ markup.base = Ref("https", "example.com", <<"">>)
  /\ markup.anchors = <<Anchor(Ref("https", "example.com", <<"", "page1">>)),
                        Anchor(Ref("", "", <<"", "page2">>)),
                        Anchor(Ref("", "", <<"page3">>))>>
  /\ extracted[2] = {Ref("https", "example.com", <<"", "page1">>),
                     Ref("https", "example.com", <<"", "page2">>),
                     Ref("https", "example.com", <<"", "page3">>)}

\* a page with indicators of one library only and a MapTiler tile URL
PageOf(fragment, other, library) ==
  /\ page \in Pages
  /\ page.fault = "none"
  /\ fragment \in page.page_source
  /\ other \notin page.page_source
  /\ SdkTag \notin page.page_source
  /\ page.tile_urls = <<MapTilerTile>>
  /\ \A i \in 1..Len(page.script_srcs) : page.script_srcs[i] \notin {LeafletSrc, OpenLayersSrc}
  /\ \A l \in {"leaflet", "openlayers"} : page.library_info[l].present => l = library

\* C19: for a page with Leaflet (OpenLayers) indicators and a MapTiler tile
\* URL, check_website reports uses_maptiler, a non-empty indicator list and
\* the library name 'Leaflet' ('OpenLayers').
C19_LibraryNaming ==
  Checked =>
    /\ PageOf(LeafletTag, OlTag, "leaflet") =>
         /\ checked.result.uses_maptiler
         /\ checked.result.maptiler_indicators # <<>>
         /\ checked.result.map_library = "Leaflet"
    /\ PageOf(OlTag, LeafletTag, "openlayers") =>
         /\ checked.result.uses_maptiler
         /\ checked.result.maptiler_indicators # <<>>
         /\ checked.result.map_library = "OpenLayers"

\* the _crawl_url call for u has not reached line 75 yet
NotYetClaimed(u) ==
  crawl_pc = "wave" /\ u \in DOMAIN tasks /\ tasks[u].pc \in {"queued", "read"}

\* C23 (as stated): at every point of a run a URL is in the visited set if and
\* only if it has been dispatched to a worker exactly once.
C23_VisitedIffDispatchedOnce ==
  \A u \in URLS : (u \in visited_urls) <=> (hist.dispatched[u] = 1)

\* C23 (amended): a URL in the visited set has been dispatched exactly once. A
\* dispatched URL is outside the visited set while its call has not reached
\* line 75, and for good when robots.txt disallows it; only such a disallowed
\* URL is dispatched again in a later wave.
C23_VisitedDispatchedOnce ==
  \A u \in URLS :
    /\ u \in visited_urls => hist.dispatched[u] = 1
    /\ (hist.dispatched[u] >= 1 /\ u \notin visited_urls) =>
         (u \in hist.denied \/ NotYetClaimed(u))
    /\ hist.dispatched[u] >= 2 => (u \in hist.denied /\ u \notin visited_urls)

C23_Witness ==
  /\ crawl_pc = "wave"
  /\ \E u \in URLS : hist.dispatched[u] = 2 /\ u \in hist.denied /\ NotYetClaimed(u)
  /\ \E u \in visited_urls : hist.dispatched[u] = 1

\* the links the call for u returned, as the fetched markup held them
LinksReturned(u) ==
  IF tasks[u].fetch = "ok" /\ u \in DOMAIN hist.page_links THEN hist.page_links[u] ELSE {}

\* C24: once a wave is over, the frontier is the union of the link sets its
\* calls returned minus the visited set as it then stands, so a wave after
\* the seed wave starts with a frontier disjoint from the visited set.
C24_NextFrontier ==
  /\ (crawl_pc \in {"loop", "done"} /\ hist.waves >= 1) =>
       /\ urls_to_crawl = (UNION {LinksReturned(u) : u \in WaveTasks}) \ visited_urls
       /\ urls_to_crawl \cap visited_urls = {}
  /\ (crawl_pc = "wave" /\ hist.waves >= 2 /\ \A u \in WaveTasks : tasks[u].pc = "queued") =>
       WaveTasks \cap visited_urls = {}

\* two calls returned links; one link is visited and left out, one makes the
\* next frontier
C24_Witness ==
  /\ crawl_pc = "loop"
  /\ hist.waves = 1
  /\ Cardinality({u \in WaveTasks : LinksReturned(u) # {}}) = 2
  /\ \E u \in WaveTasks : LinksReturned(u) \subseteq visited_urls /\ LinksReturned(u) # {}
  /\ urls_to_crawl # {}

\* C25: no more than `concurrency` _crawl_url calls are between their start
\* and their return at any moment, however many URLs the frontier holds.
C25_ConcurrencyCap == Cardinality(Running) <= concurrency

\* a frontier larger than the pool: one call runs, one waits
C25_Witness ==
  /\ concurrency = 1
  /\ Cardinality(WaveTasks) = 2
  /\ \E u \in WaveTasks : tasks[u].pc = "fetch"
  /\ \E u \in WaveTasks : tasks[u].pc = "queued"

\* C26: with n distinct seeds and n <= max_pages, wave 0 submits n calls, one
\* for each seed, none dropped and none twice; with n >= 1 wave 0 does run.
C26_SeedWaveSubmitsAll ==
  Cardinality(hist.seeds) <= max_pages =>
    /\ hist.waves = 1 =>
         /\ WaveTasks = hist.seeds
         /\ \A u \in URLS : hist.dispatched[u] = IF u \in hist.seeds THEN 1 ELSE 0
    /\ (crawl_pc = "done" /\ hist.waves = 0) => hist.seeds = {}

C26_Witness ==
  /\ crawl_pc = "wave"
  /\ hist.waves = 1
  /\ Cardinality(hist.seeds) = 2
  /\ max_pages = 2
  /\ \A u \in hist.seeds : tasks[u].pc = "queued"

\* the threads whose call claimed URL u (passed line 75) and so invokes the
\* page inspector
Claimants(u) == {w \in Threads : threads[w].claimed /\ threads[w].url = u}

\* C21: when several threads call _crawl_url on the same URL side by side,
\* at most one of them passes the visited test and the insert, and so at most
\* one invokes the page inspector.
C21_AtomicClaim == \A u \in URLS : Cardinality(Claimants(u)) <= 1

\* C22: the finding a thread gets and records for its URL is computed from
\* the page that URL serves, whatever the other threads do meanwhile.
C22_FindingFromOwnPage ==
  \A w \in Threads :
    threads[w].pc \in {"fetch", "done"} /\ threads[w].claimed =>
      threads[w].finding = CheckWebsiteOn(site[threads[w].url], threads[w].url)

\* a MapTiler pattern occurs in a tile URL, a script source or the page
\* source that _check_map_usage is given
MaptilerMatched(p) ==
  LET js == get_js_variables(p)
      pats == {maptiler_patterns[i] : i \in 1..Len(maptiler_patterns)}
  IN \E pat \in pats :
       \/ \E i \in 1..Len(js.tileUrls) : In(pat, js.tileUrls[i])
       \/ \E i \in 1..Len(js.mapUrls) : js.mapUrls[i] # "" /\ In(pat, js.mapUrls[i])
       \/ InSource(pat, p.page_source)

\* C27: a page is reported as using MapTiler only when a MapTiler pattern
\* matched in a tile URL, a script source or the page source; a page on which
\* only Leaflet or OpenLayers was detected is not reported.
C27_UsageOnlyWithMaptiler ==
  (Checked /\ checked.result.kind = "usage") => MaptilerMatched(page)

\* _check_attribution has returned
AttributionChecked == checked.result.kind = "attribution"
NamesBoth(text) == In("maptiler", Lower(text)) /\ In("openstreetmap", Lower(text))
\* the attribution elements of the library's class
ElementsOf(library_type, p) ==
  {i \in 1..Len(p.elements) : p.elements[i].class = AttributionClass(library_type)}

\* C28: _check_attribution answers has_proper_attribution exactly when the
\* library type is given, the lookups raise nothing and at least one
\* attribution element of the library names both MapTiler and OpenStreetMap,
\* in any letter case; without such an element, or with an unknown or
\* missing library type, it answers false.
C28_AttributionVerdict ==
  AttributionChecked =>
    LET lib == checked.result.library_type IN
    checked.result.status.has_proper_attribution <=>
      /\ lib \notin {None, ""}
      /\ page.fault # "attribution"
      /\ \E i \in ElementsOf(lib, page) : NamesBoth(page.elements[i].text)

\* the second Leaflet element names both, the first does not
C28_Witness ==
  /\ AttributionChecked
  /\ checked.result.library_type = "Leaflet"
  /\ page.elements = <<[class |-> "leaflet-control-attribution", text |-> OsmText],
                       [class |-> "leaflet-control-attribution", text |-> BothText]>>
  /\ checked.result.status.has_proper_attribution

\* C29: for every library type, every list of attribution elements and with
\* or without a lookup fault, the issues list _check_attribution returns is
\* empty if and only if has_proper_attribution is true.
C29_IssuesIffImproper ==
  AttributionChecked =>
    (checked.result.status.issues = <<>> <=> checked.result.status.has_proper_attribution)

\* issues gathered at a first element, then an element that names both
C29_Witness ==
  /\ AttributionChecked
  /\ checked.result.library_type = "openlayers"
  /\ page.fault = "none"
  /\ Len(page.elements) = 2
  /\ page.elements[1] = [class |-> "ol-attribution", text |-> MapTilerText]
  /\ checked.result.status.has_proper_attribution
  /\ checked.result.status.issues = <<>>

\* the page source holds an SDK indicator
HoldsSdk(p) == \E indicator \in sdk_indicators : InSource(indicator, p.page_source)

\* C30: when the page source holds an SDK indicator, detection answers no
\* usage, no library and no indicators, check_website returns no finding,
\* and _crawl_url appends nothing for the URL, which stays visited.
C30_SdkExcluded ==
  (Checked /\ HoldsSdk(page)) =>
    /\ check_map_usage(page.page_source, get_js_variables(page)) = NoUsageInfo
    /\ checked.result.kind # "usage"
    /\ page.fault \notin OuterFaults => checked.result.kind = "none"
    /\ results = <<>>
    /\ checked.url \in visited_urls

\* Leaflet detected by script and a MapTiler tile, on a page with the SDK
C30_Witness ==
  /\ Checked
  /\ HoldsSdk(page)
  /\ page.fault = "none"
  /\ page.library_info.leaflet.present
  /\ page.tile_urls = <<MapTilerTile>>
  /\ checked.result.kind = "none"
  /\ visited_urls = {checked.url}

\* C31: at every moment of a run, also of a later crawl() call on the same
\* crawler, the URL of every entry of results is in the visited set and no
\* two entries have the same URL, so the report's maptiler_pages_found never
\* exceeds its total_pages_crawled.
C31_ResultsAreVisited ==
  /\ \A i \in 1..Len(results) : results[i].url \in visited_urls
  /\ \A i, j \in 1..Len(results) : results[i].url = results[j].url => i = j
  /\ SaveResults.maptiler_pages_found <= SaveResults.total_pages_crawled

\* in the middle of a wave: one finding recorded, a second URL marked
\* visited whose inspection has not returned yet
C31_Witness ==
  /\ crawl_pc = "wave"
  /\ Len(results) = 1
  /\ Cardinality(visited_urls) = 2
  /\ \E u \in WaveTasks : tasks[u].pc = "inspect" /\ u \in visited_urls
  /\ SaveResults.maptiler_pages_found < SaveResults.total_pages_crawled
====
